---------------------------- MODULE Spec2Model ----------------------------
(***************************************************************************)
(* A model of flagpolejs/json-validator (src/src/index.ts): the type       *)
(* classifier getType, the class JsonValidator with its schema slot, its   *)
(* error collection, compile, validate and the recursive matching engine   *)
(* (_isValid, _matchesType, _matchesEnum, _matchesPattern, _matchesItems,  *)
(* _matchesProperties).                                                    *)
(*                                                                         *)
(* JavaScript values are records with one field per kind of payload, so    *)
(* that two values of different kinds can always be compared.  A           *)
(* JavaScript string is a sequence of chunks (TLA+ strings); template      *)
(* literals and join are concatenations of such sequences.  The strings    *)
(* the model generates are chunked canonically: a word is one chunk, a     *)
(* punctuation mark, a digit and a letter that a pattern can match are one *)
(* chunk each.                                                             *)
(***************************************************************************)
EXTENDS Integers, Sequences, FiniteSets, TLC

VARIABLES source, _schema, _errors, op, root, before, log, heap, calls

\* source: the schema given to the last compile that returned; _schema and
\* _errors: the instance's fields; op: the last call made on the instance;
\* root: the document of the last validate; before: _errors as that validate
\* found it; log: the engine's calls during that validate.  heap and calls
\* are the instances and the validate calls in progress of the interleaved
\* specification.
vars == <<source, _schema, _errors, op, root, before, log, heap, calls>>

seqVars == <<source, _schema, _errors, op, root, before, log>>

concVars == <<heap, calls>>

\* The longest array among the generated documents.
MaxLen == 4

\* The largest number of elements of a schema's type sequence that is generated.
MaxTypes == 2

------------------------------------------------------------------------
\* JavaScript values

Undefined == [k |-> "undefined", b |-> FALSE, n |-> 0, s |-> <<>>, a |-> <<>>, o |-> <<>>]

Null == [Undefined EXCEPT !.k = "null"]

Bool(x) == [Undefined EXCEPT !.k = "boolean", !.b = x]

Num(x) == [Undefined EXCEPT !.k = "number", !.n = x]

\* A string, given as its chunks.
Str(t) == [Undefined EXCEPT !.k = "string", !.s = t]

\* A string of one chunk.
Word(w) == Str(<<w>>)

Arr(xs) == [Undefined EXCEPT !.k = "array", !.a = xs]

\* An object, given as its own enumerable properties in Object.keys order.
Obj(es) == [Undefined EXCEPT !.k = "object", !.o = es]

\* A function: a value whose typeof is none of those getType tests for.
Native == [Undefined EXCEPT !.k = "function"]

Entry(key, val) == [key |-> key, val |-> val]

\* obj[key] / obj.key: the own property, or undefined.
Get(obj, key) ==
  IF obj.k = "object" /\ \E i \in 1..Len(obj.o) : obj.o[i].key = key
    THEN obj.o[CHOOSE i \in 1..Len(obj.o) : obj.o[i].key = key].val
    ELSE Undefined

\* Object.keys(obj)
Keys(obj) == [i \in 1..Len(obj.o) |-> obj.o[i].key]

\* JavaScript's typeof
TypeOf(value) ==
  CASE value.k = "undefined" -> "undefined"
    [] value.k = "null" -> "object"
    [] value.k = "array" -> "object"
    [] value.k = "object" -> "object"
    [] value.k = "boolean" -> "boolean"
    [] value.k = "number" -> "number"
    [] value.k = "string" -> "string"
    [] OTHER -> "function"

\* Array.isArray
IsArray(value) == value.k = "array"

\* JavaScript's truthiness, as `!schema.optional` reads it
Truthy(value) ==
  CASE value.k = "undefined" -> FALSE
    [] value.k = "null" -> FALSE
    [] value.k = "boolean" -> value.b
    [] value.k = "number" -> value.n # 0
    [] value.k = "string" -> value.s # <<>>
    [] OTHER -> TRUE

\* The strict equality === that Array.prototype.indexOf uses: primitives by
\* value, arrays, objects and functions by reference (a document and a schema
\* never share a reference).
StrictEquals(x, y) ==
  /\ x.k = y.k
  /\ CASE x.k = "undefined" -> TRUE
       [] x.k = "null" -> TRUE
       [] x.k = "boolean" -> x.b = y.b
       [] x.k = "number" -> x.n = y.n
       [] x.k = "string" -> x.s = y.s
       [] OTHER -> FALSE

\* xs.indexOf(x), zero-based, -1 when absent
IndexOf(xs, x) ==
  IF \E i \in 1..Len(xs) : StrictEquals(xs[i], x)
    THEN (CHOOSE i \in 1..Len(xs) :
            /\ StrictEquals(xs[i], x)
            /\ \A j \in 1..(i - 1) : ~StrictEquals(xs[j], x)) - 1
    ELSE -1

Digit == <<"0", "1", "2", "3", "4", "5", "6", "7", "8", "9">>

IsDigit(c) == \E v \in 1..Len(Digit) : Digit[v] = c

DigitVal(c) == (CHOOSE v \in 1..Len(Digit) : Digit[v] = c) - 1

RECURSIVE NatText(_)
\* The decimal digits of a natural number
NatText(x) ==
  IF x < Len(Digit) THEN <<Digit[x + 1]>>
  ELSE NatText(x \div Len(Digit)) \o <<Digit[(x % Len(Digit)) + 1]>>

\* String(x) of an integer
NumText(x) == IF x < 0 THEN <<"-">> \o NatText(-x) ELSE NatText(x)

RECURSIVE ToStr(_)
RECURSIVE JoinFrom(_, _, _)
\* xs.join(sep), from element i on: null and undefined elements give the
\* empty string
JoinFrom(xs, sep, i) ==
  IF i > Len(xs) THEN <<>>
  ELSE (IF i > 1 THEN sep ELSE <<>>)
       \o (IF xs[i].k \in {"undefined", "null"} THEN <<>> ELSE ToStr(xs[i]))
       \o JoinFrom(xs, sep, i + 1)

\* Array.prototype.join
Join(xs, sep) == JoinFrom(xs, sep, 1)

\* String(value), also what a template literal `${value}` gives
ToStr(value) ==
  CASE value.k = "undefined" -> <<"undefined">>
    [] value.k = "null" -> <<"null">>
    [] value.k = "boolean" -> IF value.b THEN <<"true">> ELSE <<"false">>
    [] value.k = "number" -> NumText(value.n)
    [] value.k = "string" -> value.s
    [] value.k = "array" -> Join(value.a, <<",">>)
    [] value.k = "object" -> <<"[object Object]">>
    [] OTHER -> <<"function () {}">>

------------------------------------------------------------------------
\* The type classifier

\* A classifier that tells whole numbers apart as "integer"
GetTypeWithInteger(value) ==
  IF value.k = "undefined" THEN "undefined"
  ELSE IF value.k = "null" THEN "null"
  ELSE IF IsArray(value) THEN "array"
  ELSE IF TypeOf(value) = "object" THEN "object"
  ELSE IF TypeOf(value) = "boolean" THEN "boolean"
  ELSE IF TypeOf(value) = "number" THEN "integer"
  ELSE "string"

GetType(value) ==
  IF value.k = "undefined" THEN "undefined"
  ELSE IF value.k = "null" THEN "null"
  ELSE IF IsArray(value) THEN "array"
  ELSE IF TypeOf(value) = "object" THEN "object"
  ELSE IF TypeOf(value) = "boolean" THEN "boolean"
  ELSE IF TypeOf(value) = "number" THEN "number"
  ELSE "string"

\* compareTypes: the classified types of the schema node and of the document
CompareTypes(schema, document) == <<GetType(schema), GetType(document)>>

------------------------------------------------------------------------
\* The schema compiler: JSON.parse of a schema given as a string.  The text is
\* the string's chunks: the punctuation marks { } [ ] : , and the quote are one
\* chunk each, and so are a digit, a word inside a string literal, and the
\* literals true, false and null.  White space and escapes are not generated.

Quote == "\""

\* The result of a parse that failed (JSON.parse throws a SyntaxError).
ParseBad == [ok |-> FALSE, val |-> Undefined, next |-> 0]

ParseGood(val, next) == [ok |-> TRUE, val |-> val, next |-> next]

\* The object with key set to val: a repeated key keeps its first place and
\* takes the last value.
Put(es, key, val) ==
  IF \E i \in 1..Len(es) : es[i].key = key
    THEN [i \in 1..Len(es) |-> IF es[i].key = key THEN Entry(key, val) ELSE es[i]]
    ELSE Append(es, Entry(key, val))

\* A string literal whose opening quote is at i - 1: the chunks up to the
\* closing quote.
ParseString(t, i) ==
  IF \E j \in i..Len(t) : t[j] = Quote
    THEN LET close == CHOOSE j \in i..Len(t) :
                        t[j] = Quote /\ \A m \in i..(j - 1) : t[m] # Quote
         IN  ParseGood(Str(SubSeq(t, i, close - 1)), close + 1)
    ELSE ParseBad

RECURSIVE ParseDigits(_, _, _)
\* The digits from i on, acc being the value of those already read.
ParseDigits(t, i, acc) ==
  IF i <= Len(t) /\ IsDigit(t[i])
    THEN ParseDigits(t, i + 1, acc * Len(Digit) + DigitVal(t[i]))
    ELSE ParseGood(Num(acc), i)

\* A number: an optional minus sign, then digits (no leading zero, no
\* fraction, no exponent are generated).
ParseNumber(t, i) ==
  IF t[i] = "-"
    THEN IF i + 1 <= Len(t) /\ IsDigit(t[i + 1])
           THEN LET r == ParseDigits(t, i + 1, 0)
                IN  ParseGood(Num(-r.val.n), r.next)
           ELSE ParseBad
    ELSE ParseDigits(t, i, 0)

RECURSIVE ParseValue(_, _)
RECURSIVE ParseElements(_, _, _)
RECURSIVE ParseMembers(_, _, _)

\* The elements of an array after its "[" or after a ",": xs are those read.
ParseElements(t, i, xs) ==
  LET r == ParseValue(t, i)
  IN  IF ~r.ok \/ r.next > Len(t) THEN ParseBad
      ELSE IF t[r.next] = "]" THEN ParseGood(Arr(Append(xs, r.val)), r.next + 1)
      ELSE IF t[r.next] = "," THEN ParseElements(t, r.next + 1, Append(xs, r.val))
      ELSE ParseBad

\* The members of an object after its "{" or after a ",": es are those read.
ParseMembers(t, i, es) ==
  IF i > Len(t) \/ t[i] # Quote THEN ParseBad
  ELSE LET key == ParseString(t, i + 1)
       IN  IF ~key.ok \/ key.next > Len(t) \/ t[key.next] # ":" THEN ParseBad
           ELSE LET r == ParseValue(t, key.next + 1)
                IN  IF ~r.ok \/ r.next > Len(t) THEN ParseBad
                    ELSE IF t[r.next] = "}"
                      THEN ParseGood(Obj(Put(es, key.val.s, r.val)), r.next + 1)
                    ELSE IF t[r.next] = ","
                      THEN ParseMembers(t, r.next + 1, Put(es, key.val.s, r.val))
                    ELSE ParseBad

ParseValue(t, i) ==
  IF i > Len(t) THEN ParseBad
  ELSE CASE t[i] = "{" ->
              IF i + 1 <= Len(t) /\ t[i + 1] = "}"
                THEN ParseGood(Obj(<<>>), i + 2)
                ELSE ParseMembers(t, i + 1, <<>>)
         [] t[i] = "[" ->
              IF i + 1 <= Len(t) /\ t[i + 1] = "]"
                THEN ParseGood(Arr(<<>>), i + 2)
                ELSE ParseElements(t, i + 1, <<>>)
         [] t[i] = Quote -> ParseString(t, i + 1)
         [] t[i] = "-" \/ IsDigit(t[i]) -> ParseNumber(t, i)
         [] t[i] = "true" -> ParseGood(Bool(TRUE), i + 1)
         [] t[i] = "false" -> ParseGood(Bool(FALSE), i + 1)
         [] t[i] = "null" -> ParseGood(Null, i + 1)
         [] OTHER -> ParseBad

\* JSON.parse(text): one value and nothing after it, or a throw (ok = FALSE).
JsonParse(t) ==
  LET r == ParseValue(t, 1)
  IN  IF r.ok /\ r.next = Len(t) + 1 THEN r ELSE ParseBad

\* Whether compile(schema) throws: only a string is parsed.
CompileThrows(schema) == TypeOf(schema) = "string" /\ ~JsonParse(schema.s).ok

\* The node compile(schema) stores in _schema.
Compiled(schema) == IF TypeOf(schema) = "string" THEN JsonParse(schema.s).val ELSE schema

------------------------------------------------------------------------
\* The error collection and the record of the engine's calls.  The engine
\* threads st = [errs, log]: errs is this._errors, log is a history of the
\* calls made and of what each returned, kept for the properties below.

ValidationError(keyword, instancePath, message) ==
  [keyword |-> keyword, instancePath |-> instancePath, message |-> message]

\* _logError: this._errors.push(error)
LogError(st, error) == [st EXCEPT !.errs = Append(@, error)]

CallEvent(fn, schema, document, path) ==
  [ev |-> "call", fn |-> fn, path |-> path, schema |-> schema,
   doc |-> document, ok |-> TRUE]

RetEvent(fn, path, ok) ==
  [ev |-> "ret", fn |-> fn, path |-> path, schema |-> Undefined,
   doc |-> Undefined, ok |-> ok]

\* The entry of fn(schema, document, path)
Enter(st, fn, schema, document, path) ==
  [st EXCEPT !.log = Append(@, CallEvent(fn, schema, document, path))]

\* fn's return of ok
Return(st, fn, path, ok) ==
  [ok |-> ok, st |-> [st EXCEPT !.log = Append(@, RetEvent(fn, path, ok))]]

\* A guard that lets a check run on a field the descriptor does not have
SchemaAlwaysDefined(schemaType) == TRUE

\* The guard `schemaType != "undefined"` of a check
SchemaDefined(schemaType) == schemaType # "undefined"

\* `docType != schema` where the schema node classified as "string": a string
\* is compared by its text, a native value never equals a type tag.
TagDiffers(docType, schema) ==
  IF schema.k = "string" THEN schema.s # <<docType>> ELSE TRUE

\* The message of a type error: `must be ${allowed}, but it was ${docType}`
TypeMessage(allowed, docType) ==
  <<"must be ">> \o allowed \o <<", but it was ">> \o <<docType>>

\* What the single-string branch puts for the allowed type: ${schemaType}
SingleAllowed(schema, schemaType) == <<schemaType>>

\* _matchesType(schema, document, path)
MatchesType(schema, document, path, st0) ==
  LET schemaType == CompareTypes(schema, document)[1]
      docType == CompareTypes(schema, document)[2]
      st == Enter(st0, "_matchesType", schema, document, path)
  IN  IF SchemaDefined(schemaType) /\ schemaType = "string"
         /\ TagDiffers(docType, schema)
        THEN Return(LogError(st, ValidationError("type", path,
                      TypeMessage(SingleAllowed(schema, schemaType), docType))),
                    "_matchesType", path, FALSE)
      ELSE IF SchemaDefined(schemaType) /\ schemaType = "array"
              /\ IndexOf(schema.a, Word(docType)) < 0
        THEN Return(LogError(st, ValidationError("type", path,
                      TypeMessage(Join(schema.a, <<" | ">>), docType))),
                    "_matchesType", path, FALSE)
      ELSE Return(st, "_matchesType", path, TRUE)

\* _matchesEnum(schema, document, path)
MatchesEnum(schema, document, path, st0) ==
  LET st == Enter(st0, "_matchesEnum", schema, document, path)
  IN  IF GetType(schema) = "array" /\ IndexOf(schema.a, document) < 0
        THEN Return(LogError(st, ValidationError("value", path,
                      <<"value must be in enum ">> \o Join(schema.a, <<", ">>)
                        \o <<", but it was ">> \o ToStr(document))),
                    "_matchesEnum", path, FALSE)
        ELSE Return(st, "_matchesEnum", path, TRUE)

\* Whether the literal chunks core match text at position p.
MatchesAt(core, text, p) ==
  /\ p >= 1
  /\ p + Len(core) - 1 <= Len(text)
  /\ \A i \in 1..Len(core) : core[i] = text[p + i - 1]

\* new RegExp(re).test(text) for a pattern re of literal chunks with an
\* optional ^ in front and an optional $ at the end.
RegExpTest(re, text) ==
  LET fromStart == Len(re) >= 1 /\ re[1] = "^"
      rest == IF fromStart THEN SubSeq(re, 2, Len(re)) ELSE re
      toEnd == Len(rest) >= 1 /\ rest[Len(rest)] = "$"
      core == IF toEnd THEN SubSeq(rest, 1, Len(rest) - 1) ELSE rest
  IN  \E p \in 1..(Len(text) + 1) :
        /\ MatchesAt(core, text, p)
        /\ fromStart => p = 1
        /\ toEnd => p + Len(core) - 1 = Len(text)

\* _matchesPattern(schema, document, path)
MatchesPattern(schema, document, path, st0) ==
  LET schemaType == CompareTypes(schema, document)[1]
      st == Enter(st0, "_matchesPattern", schema, document, path)
  IN  IF SchemaDefined(schemaType) /\ ~RegExpTest(ToStr(schema), ToStr(document))
        THEN Return(LogError(st, ValidationError("value", path,
                      <<"value ">> \o ToStr(document) \o <<" did not match  ">>
                        \o ToStr(schema))),
                    "_matchesPattern", path, FALSE)
        ELSE Return(st, "_matchesPattern", path, TRUE)

\* A loop that visits every element whatever the callback returns (forEach)
EveryGoesOn(ok) == TRUE

\* Whether Array.prototype.every goes on to the next element after its
\* callback returned ok.
EveryContinues(ok) == ok

\* `${path}[${index}]`
IndexPath(path, index) == path \o <<"[">> \o NumText(index) \o <<"]">>

\* `${path}.${key}`
KeyPath(path, key) == path \o <<".">> \o key

\* A rescue that does not look at the optional flag
RescuedWithoutFlag(schema, document) == TypeOf(document) = "undefined"

\* Whether a type failure is let through: the negation of
\* `!schema.optional || typeof document != "undefined"`
Rescued(schema, document) ==
  Truthy(Get(schema, <<"optional">>)) /\ TypeOf(document) = "undefined"

RECURSIVE IsValid(_, _, _, _)
RECURSIVE MatchesItems(_, _, _, _)
RECURSIVE MatchesProperties(_, _, _, _)
RECURSIVE EveryItem(_, _, _, _, _, _)
RECURSIVE EveryDocKey(_, _, _, _, _)
RECURSIVE EverySchemaKey(_, _, _, _, _)

\* document.every((subItem, index) => ...) of _matchesItems, from index on
\* (arrays are dense: every index below the length holds an element)
EveryItem(schema, schemaType, document, index, path, st) ==
  IF index >= Len(document.a) THEN [ok |-> TRUE, st |-> st]
  ELSE LET subItem == document.a[index + 1]
           r == IF schemaType = "string" \/ schemaType = "array"
                  THEN MatchesType(schema, subItem, IndexPath(path, index), st)
                ELSE IF schemaType = "object"
                  THEN IsValid(schema, subItem, IndexPath(path, index), st)
                ELSE [ok |-> TRUE, st |-> st]
       IN  IF EveryContinues(r.ok)
             THEN EveryItem(schema, schemaType, document, index + 1, path, r.st)
             ELSE [ok |-> FALSE, st |-> r.st]

\* _matchesItems(schema, document, path)
MatchesItems(schema, document, path, st0) ==
  LET schemaType == CompareTypes(schema, document)[1]
      docType == CompareTypes(schema, document)[2]
      st == Enter(st0, "_matchesItems", schema, document, path)
  IN  IF SchemaDefined(schemaType)
        THEN IF docType # "array"
               THEN Return(LogError(st, ValidationError("schema", path,
                             <<"must be an array, but schema defines items.">>)),
                           "_matchesItems", path, FALSE)
               ELSE LET r == EveryItem(schema, schemaType, document, 0, path, st)
                    IN  Return(r.st, "_matchesItems", path, r.ok)
        ELSE Return(st, "_matchesItems", path, TRUE)

\* Object.keys(document).every((key) => _matchesType(...)), from the i-th key on
EveryDocKey(schema, document, i, path, st) ==
  IF i > Len(Keys(document)) THEN [ok |-> TRUE, st |-> st]
  ELSE LET key == Keys(document)[i]
           r == MatchesType(schema, Get(document, key), KeyPath(path, key), st)
       IN  IF EveryContinues(r.ok)
             THEN EveryDocKey(schema, document, i + 1, path, r.st)
             ELSE [ok |-> FALSE, st |-> r.st]

\* Object.keys(schema).every((key) => _isValid(...)), from the i-th key on
EverySchemaKey(schema, document, i, path, st) ==
  IF i > Len(Keys(schema)) THEN [ok |-> TRUE, st |-> st]
  ELSE LET key == Keys(schema)[i]
           r == IsValid(Get(schema, key), Get(document, key), KeyPath(path, key), st)
       IN  IF EveryContinues(r.ok)
             THEN EverySchemaKey(schema, document, i + 1, path, r.st)
             ELSE [ok |-> FALSE, st |-> r.st]

\* _matchesProperties(schema, document, path)
MatchesProperties(schema, document, path, st0) ==
  LET schemaType == CompareTypes(schema, document)[1]
      docType == CompareTypes(schema, document)[2]
      st == Enter(st0, "_matchesProperties", schema, document, path)
  IN  IF SchemaDefined(schemaType)
        THEN IF docType # "object"
               THEN Return(LogError(st, ValidationError("schema", <<"path">>,
                             <<"must be an object, but schema defines properties.">>)),
                           "_matchesProperties", path, FALSE)
             ELSE IF schemaType = "string" \/ schemaType = "array"
               THEN LET r == EveryDocKey(schema, document, 1, path, st)
                    IN  Return(r.st, "_matchesProperties", path, r.ok)
             ELSE IF schemaType = "object"
               THEN LET r == EverySchemaKey(schema, document, 1, path, st)
                    IN  Return(r.st, "_matchesProperties", path, r.ok)
             ELSE Return(st, "_matchesProperties", path, TRUE)
        ELSE Return(st, "_matchesProperties", path, TRUE)

\* _isValid(schema, document, path)
IsValid(schema, document, path, st0) ==
  LET schemaType == CompareTypes(schema, document)[1]
      st == Enter(st0, "_isValid", schema, document, path)
  IN  IF schemaType = "string" \/ schemaType = "array"
        THEN LET t == MatchesType(schema, document, path, st)
             IN  Return(t.st, "_isValid", path, t.ok)
      ELSE IF schemaType = "object"
        THEN LET t == MatchesType(Get(schema, <<"type">>), document, path, st)
             IN  IF ~t.ok /\ ~Rescued(schema, document)
                   THEN Return(t.st, "_isValid", path, FALSE)
                 ELSE
             LET e == MatchesEnum(Get(schema, <<"enum">>), document, path, t.st)
             IN  IF ~e.ok THEN Return(e.st, "_isValid", path, FALSE) ELSE
             LET m == MatchesPattern(Get(schema, <<"matches">>), document, path, e.st)
             IN  IF ~m.ok THEN Return(m.st, "_isValid", path, FALSE) ELSE
             LET i == MatchesItems(Get(schema, <<"items">>), document, path, m.st)
             IN  IF ~i.ok THEN Return(i.st, "_isValid", path, FALSE) ELSE
             LET p == MatchesProperties(Get(schema, <<"properties">>), document,
                                        path, i.st)
             IN  IF ~p.ok THEN Return(p.st, "_isValid", path, FALSE)
                 ELSE Return(p.st, "_isValid", path, TRUE)
      ELSE Return(st, "_isValid", path, TRUE)

\* A validate that does not reset the collection
KeepErrors(errs) == errs

\* `this._errors = []` at the start of validate
ResetErrors(errs) == <<>>

\* validate(root) on an instance holding schema and errs: the reset, then the
\* engine from path "$".
RunValidate(schema, document, errs) ==
  IsValid(schema, document, <<"$">>, [errs |-> ResetErrors(errs), log |-> <<>>])

\* The isValid getter
IsValidGetter(errs) == Len(errs) = 0

\* The static validate(schema, document): a new instance, compiled, validated.
\* Its errors; not defined when the compile throws.
StaticValidate(schema, document) ==
  RunValidate(Compiled(schema), document, <<>>).st.errs

------------------------------------------------------------------------
\* The inputs that are generated

\* Schema_Type
Tags ==
  {"undefined", "boolean", "object", "array", "string", "number", "integer", "null"}

RECURSIVE SeqsUpTo(_, _)
\* The sequences over S of length at most len
SeqsUpTo(S, len) ==
  IF len = 0 THEN {<<>>}
  ELSE LET shorter == SeqsUpTo(S, len - 1)
       IN  shorter \cup {Append(q, e) : q \in {x \in shorter : Len(x) = len - 1}, e \in S}

\* The object with the given fields, an undefined field being left out
Fields(es) == Obj(SelectSeq(es, LAMBDA e : e.val.k # "undefined"))

KeyA == <<"a">>

KeyB == <<"b">>

PrimDocs ==
  {Undefined, Null, Bool(TRUE), Num(1), Num(5), Word("x"), Word("hello"), Native}

ArrayDocs ==
  {Arr(q) : q \in SeqsUpTo({Num(1), Word("x")}, MaxLen)}
    \cup {Arr(<<Num(1), Num(2), Word("x"), Num(4)>>), Arr(<<Undefined>>), Arr(<<Num(1), Undefined, Word("x")>>),
          Arr(<<Undefined, Word("x"), Undefined>>)}

ObjectDocs ==
  LET Vals == {Undefined, Num(1), Word("x")}
  IN  {Fields(<<Entry(KeyA, v), Entry(KeyB, w)>>) : v \in Vals, w \in Vals}
        \cup {Fields(<<Entry(KeyB, w), Entry(KeyA, v)>>) : v \in Vals, w \in Vals}
        \cup {Obj(<<Entry(KeyA, Undefined)>>)}

NestedDocs ==
  {Arr(<<Arr(<<Num(1)>>), Arr(<<Word("x")>>), Arr(<<Num(1)>>)>>),
   Arr(<<Obj(<<Entry(KeyA, Num(1))>>), Obj(<<Entry(KeyA, Word("x"))>>), Obj(<<>>)>>),
   Obj(<<Entry(KeyA, Arr(<<Num(1), Word("x")>>)), Entry(KeyB, Obj(<<>>))>>)}

Docs == PrimDocs \cup ArrayDocs \cup ObjectDocs \cup NestedDocs

\* Schema nodes that are a type or a sequence of types
TypeSpecs ==
  {Word(t) : t \in Tags}
    \cup {Arr(q) : q \in SeqsUpTo({Word("number"), Word("undefined")}, MaxTypes)}

\* Schema nodes that are neither a type specifier nor a descriptor
OtherNodes == {Undefined, Null, Bool(TRUE), Num(5), Native}

TypeFields ==
  {Undefined, Word("string"), Word("number"), Word("integer"), Word("array"),
   Word("object"), Arr(<<Word("number"), Word("undefined")>>)}

NumberSchema == Obj(<<Entry(<<"type">>, Word("number"))>>)

OptionalNumberSchema ==
  Obj(<<Entry(<<"type">>, Word("number")), Entry(<<"optional">>, Bool(TRUE))>>)

\* The fields of a descriptor besides type and optional
ExtraFields ==
  {<<>>,
   <<Entry(<<"enum">>, Arr(<<Num(1), Word("x")>>))>>,
   <<Entry(<<"matches">>, Str(<<"^", "x">>))>>,
   <<Entry(<<"pattern">>, Str(<<"^", "x">>))>>,
   <<Entry(<<"foo">>, Num(1))>>,
   <<Entry(<<"items">>, Word("number"))>>,
   <<Entry(<<"items">>, NumberSchema)>>,
   <<Entry(<<"items">>, OptionalNumberSchema)>>,
   <<Entry(<<"items">>, Obj(<<Entry(<<"items">>, Word("number"))>>))>>,
   <<Entry(<<"items">>, Obj(<<Entry(<<"properties">>,
        Obj(<<Entry(KeyA, Word("number"))>>))>>))>>,
   <<Entry(<<"properties">>, Word("number"))>>,
   <<Entry(<<"properties">>, Obj(<<Entry(KeyA, NumberSchema),
        Entry(KeyB, Obj(<<Entry(<<"type">>, Word("string"))>>))>>))>>,
   <<Entry(<<"properties">>, Obj(<<Entry(KeyA, OptionalNumberSchema),
        Entry(KeyB, Word("string"))>>))>>,
   <<Entry(<<"properties">>, Obj(<<Entry(KeyA, Obj(<<Entry(<<"items">>, NumberSchema)>>)),
        Entry(KeyB, Obj(<<>>))>>))>>,
   <<Entry(<<"enum">>, Arr(<<Num(1), Word("x")>>)),
     Entry(<<"matches">>, Str(<<"^", "x">>)),
     Entry(<<"items">>, Word("number")),
     Entry(<<"properties">>, Word("number"))>>}

Descriptors ==
  {Obj(Fields(<<Entry(<<"type">>, t), Entry(<<"optional">>, o)>>).o \o x) :
     t \in TypeFields, o \in {Undefined, Bool(TRUE)}, x \in ExtraFields}

\* JSON.stringify of a string without escapes: the text in quotes
Quoted(t) == Str(<<Quote>> \o t \o <<Quote>>)

\* What a caller passes to the constructor or to compile for a schema node:
\* the node, or for a node that is a string its JSON text (a string is parsed).
AsInput(node) == IF TypeOf(node) = "string" THEN Quoted(node.s) ELSE node

EngineInputs == {AsInput(node) : node \in TypeSpecs \cup OtherNodes \cup Descriptors}

\* {"type":"number","enum":[1,2,3]} as JSON text
EnumText ==
  Str(<<"{", Quote, "type", Quote, ":", Quote, "number", Quote, ",",
        Quote, "enum", Quote, ":", "[", "1", ",", "2", ",", "3", "]", "}">>)

\* Schemas given to one instance over its life: nodes, JSON texts, and two
\* strings that are not JSON (a bare type name, a text cut short).
LifeInputs ==
  {Obj(<<Entry(<<"type">>, Word("string"))>>),
   Obj(<<Entry(<<"type">>, Word("string")), Entry(<<"optional">>, Bool(TRUE))>>),
   Obj(<<Entry(<<"type">>, Word("array")), Entry(<<"items">>, NumberSchema)>>),
   Obj(<<Entry(<<"type">>, Word("object")),
         Entry(<<"properties">>, Obj(<<Entry(KeyA, NumberSchema)>>))>>),
   EnumText,
   Quoted(<<"integer">>),
   Word("string"),
   Str(<<"{", Quote, "type", Quote, ":">>),
   Undefined}

LifeDocs ==
  {Word("hello"), Num(5), Num(4), Undefined, Obj(<<>>),
   Obj(<<Entry(KeyA, Word("x"))>>), Obj(<<Entry(KeyA, Num(1))>>),
   Arr(<<Num(1), Num(2), Word("x"), Num(4)>>), Arr(<<Num(1), Num(2)>>)}

------------------------------------------------------------------------
\* One instance: the constructor, compile and validate

\* new JsonValidator(schema), for a schema whose compile does not throw
Construct(schema) ==
  /\ ~CompileThrows(schema)
  /\ source = schema
  /\ _schema = Compiled(schema)
  /\ _errors = <<>>
  /\ op = "new"
  /\ root = Undefined
  /\ before = <<>>
  /\ log = <<>>

\* compile(schema); when JSON.parse throws, nothing is assigned
Compile(schema) ==
  /\ IF CompileThrows(schema)
       THEN /\ op' = "compileThrew"
            /\ UNCHANGED <<source, _schema>>
       ELSE /\ op' = "compile"
            /\ source' = schema
            /\ _schema' = Compiled(schema)
  /\ UNCHANGED <<_errors, root, before, log, concVars>>

\* validate(document)
Validate(document) ==
  LET r == RunValidate(_schema, document, _errors)
  IN  /\ _errors' = r.st.errs
      /\ log' = r.st.log
      /\ root' = document
      /\ before' = _errors
      /\ op' = "validate"
      /\ UNCHANGED <<source, _schema, concVars>>

NoCalls == <<>>

Init ==
  /\ \E schema \in LifeInputs : Construct(schema)
  /\ heap = <<>>
  /\ calls = NoCalls

Next ==
  \/ \E schema \in LifeInputs : Compile(schema)
  \/ \E document \in LifeDocs : Validate(document)

Spec == Init /\ [][Next]_vars

\* The engine as a function of (schema, document): a new instance for every
\* schema, and its first validate for every document.
InitEngine ==
  /\ \E schema \in EngineInputs : Construct(schema)
  /\ heap = <<>>
  /\ calls = NoCalls

NextEngine == \E document \in Docs : op = "new" /\ Validate(document)

SpecEngine == InitEngine /\ [][NextEngine]_vars

------------------------------------------------------------------------
\* Overlapping validate calls.  The code is synchronous; here the steps of two
\* calls are let to interleave, as they would if validate were re-entered or
\* run on threads sharing the instance.  A call's steps are the statements of
\* validate that touch the instance: the reset `this._errors = []`, each
\* `this._errors.push(error)` of the engine, and the return of the instance,
\* on which the caller reads errors and isValid.

Insts == {1, 2}

CallIds == {1, 2}

ConcInputs ==
  {Obj(<<Entry(<<"type">>, Word("string"))>>),
   Obj(<<Entry(<<"items">>, OptionalNumberSchema)>>)}

ConcDocs == {Word("hello"), Num(5), Arr(<<Undefined, Word("x")>>)}

Idle == [pc |-> "idle", inst |-> 1, root |-> Undefined, pending |-> <<>>, seen |-> <<>>]

\* One error collection for all instances (a static field)
SlotShared(call) == 1

\* The instance whose _errors a call assigns and pushes to: `this`
Slot(call) == call.inst

\* validator.validate(document) is entered on instance i
Invoke(c, i, document) ==
  /\ calls[c].pc = "idle"
  /\ calls' = [calls EXCEPT ![c] = [Idle EXCEPT !.pc = "reset", !.inst = i,
                                                 !.root = document]]
  /\ UNCHANGED <<heap, seqVars>>

\* `this._errors = []`, and the engine starts on this._schema: pending are
\* the errors it will push, in order
ResetStep(c) ==
  /\ calls[c].pc = "reset"
  /\ heap' = [heap EXCEPT ![Slot(calls[c])]._errors = ResetErrors(@)]
  /\ calls' = [calls EXCEPT ![c].pc = "engine",
                 ![c].pending =
                   RunValidate(heap[calls[c].inst]._schema, calls[c].root, <<>>).st.errs]
  /\ UNCHANGED seqVars

\* One `this._errors.push(error)` of the engine
LogStep(c) ==
  /\ calls[c].pc = "engine"
  /\ calls[c].pending # <<>>
  /\ heap' = [heap EXCEPT ![Slot(calls[c])]._errors =
                LogError([errs |-> @, log |-> <<>>], Head(calls[c].pending)).errs]
  /\ calls' = [calls EXCEPT ![c].pending = Tail(@)]
  /\ UNCHANGED seqVars

\* `return this`: the caller reads the instance's errors
ReturnStep(c) ==
  /\ calls[c].pc = "engine"
  /\ calls[c].pending = <<>>
  /\ calls' = [calls EXCEPT ![c].pc = "done",
                 ![c].seen = heap[Slot(calls[c])]._errors]
  /\ UNCHANGED <<heap, seqVars>>

InitConc ==
  /\ Construct(Undefined)
  /\ \E schema \in ConcInputs :
       heap = [i \in Insts |-> [_schema |-> Compiled(schema), _errors |-> <<>>]]
  /\ calls = [c \in CallIds |-> Idle]

NextConc ==
  \E c \in CallIds :
    \/ \E i \in Insts, document \in ConcDocs : Invoke(c, i, document)
    \/ ResetStep(c)
    \/ LogStep(c)
    \/ ReturnStep(c)

SpecConc == InitConc /\ [][NextConc]_vars

------------------------------------------------------------------------
\* Reading the record of the last validate

IsPrefix(p, q) == Len(p) <= Len(q) /\ SubSeq(q, 1, Len(p)) = p

\* The places in log of the calls of fn at path
CallsOf(fn, path) ==
  {i \in 1..Len(log) : log[i].ev = "call" /\ log[i].fn = fn /\ log[i].path = path}

\* Whether fn was called at path
WasCalled(fn, path) == CallsOf(fn, path) # {}

\* Whether a call of fn at path returned ok
Returned(fn, path, ok) ==
  \E i \in 1..Len(log) :
    log[i].ev = "ret" /\ log[i].fn = fn /\ log[i].path = path /\ log[i].ok = ok

\* The five checks of a descriptor
Checks ==
  {"_matchesType", "_matchesEnum", "_matchesPattern", "_matchesItems",
   "_matchesProperties"}

\* The errors logged at path with keyword
ErrorsAt(keyword, path) ==
  {i \in 1..Len(_errors) :
     _errors[i].keyword = keyword /\ _errors[i].instancePath = path}

\* The calls of _isValid on a descriptor
DescriptorCalls ==
  {i \in 1..Len(log) :
     log[i].ev = "call" /\ log[i].fn = "_isValid" /\ GetType(log[i].schema) = "object"}

------------------------------------------------------------------------
\* C1: when a descriptor's type check fails, its optional flag is set and the
\* document value is undefined, the failure is suppressed (no type error stays
\* logged for that value); after validate(undefined) with the schema
\* {type:"string", optional:true} isValid is true and errors is empty.
C1_OptionalRescueValid ==
  op = "validate" =>
    /\ \A i \in DescriptorCalls :
         (/\ Rescued(log[i].schema, log[i].doc)
          /\ Returned("_matchesType", log[i].path, FALSE))
           => ErrorsAt("type", log[i].path) = {}
    /\ (/\ _schema = Obj(<<Entry(<<"type">>, Word("string")),
                           Entry(<<"optional">>, Bool(TRUE))>>)
        /\ root = Undefined)
         => IsValidGetter(_errors) /\ _errors = <<>>

\* The rescue happened: the type check failed on a missing value under optional.
C1_Rescue ==
  /\ op = "validate"
  /\ _schema = Obj(<<Entry(<<"type">>, Word("string")),
                     Entry(<<"optional">>, Bool(TRUE))>>)
  /\ root = Undefined
  /\ Returned("_matchesType", <<"$">>, FALSE)
  /\ Returned("_isValid", <<"$">>, TRUE)

------------------------------------------------------------------------
\* The calls of _matchesProperties whose properties map is an object
\* descriptor map and whose document is an object: the loop over the schema's
\* keys runs.
SchemaKeyLoops ==
  {i \in 1..Len(log) :
     /\ log[i].ev = "call" /\ log[i].fn = "_matchesProperties"
     /\ GetType(log[i].schema) = "object" /\ GetType(log[i].doc) = "object"}

\* Whether the engine was run on (properties[key], document[key], path.key)
\* within the properties check that log[i] starts.
KeyRun(i, key) ==
  \E j \in CallsOf("_isValid", KeyPath(log[i].path, key)) :
    /\ j > i
    /\ log[j].schema = Get(log[i].schema, key)
    /\ log[j].doc = Get(log[i].doc, key)

\* Whether document[key] fails properties[key] when validated on its own
KeyFailsAlone(i, key) ==
  ~IsValid(Get(log[i].schema, key), Get(log[i].doc, key),
           KeyPath(log[i].path, key), [errs |-> <<>>, log |-> <<>>]).ok

\* C2 as claimed: the engine is run on every key of the schema's properties
\* map, and every key whose value fails its sub-schema has its error in the
\* collection.
C2_EveryKeyRun ==
  op = "validate" =>
    \A i \in SchemaKeyLoops :
      \A n \in 1..Len(Keys(log[i].schema)) :
        LET key == Keys(log[i].schema)[n]
        IN  /\ KeyRun(i, key)
            /\ KeyFailsAlone(i, key) =>
                 \E e \in 1..Len(_errors) :
                   IsPrefix(KeyPath(log[i].path, key), _errors[e].instancePath)

\* C2 as amended: the keys of the schema's properties map are taken in
\* Object.keys order; the engine is run on (properties[k], document[k],
\* path + "." + k) for a key, present in the document or not, exactly when
\* its run on every earlier key returned true; the keys after the first one
\* whose run returns false are not validated and contribute no error.
C2_KeysUntilFirstFailure ==
  op = "validate" =>
    \A i \in SchemaKeyLoops :
      \A n \in 1..Len(Keys(log[i].schema)) :
        LET key == Keys(log[i].schema)[n]
            earlierPass ==
              \A m \in 1..(n - 1) :
                Returned("_isValid", KeyPath(log[i].path, Keys(log[i].schema)[m]), TRUE)
        IN  /\ KeyRun(i, key) <=> earlierPass
            /\ ~earlierPass => ~WasCalled("_isValid", KeyPath(log[i].path, key))
            /\ ~earlierPass =>
                 \A e \in 1..Len(_errors) :
                   ~IsPrefix(KeyPath(log[i].path, key), _errors[e].instancePath)

\* A properties check whose first key failed and whose second key, which
\* fails on its own too and is missing or wrong in the document, was never
\* validated; and in the same state a first key that was validated.
C2_SecondKeySkipped ==
  /\ op = "validate"
  /\ \E i \in SchemaKeyLoops :
       /\ Len(Keys(log[i].schema)) = 2
       /\ KeyRun(i, Keys(log[i].schema)[1])
       /\ Returned("_isValid", KeyPath(log[i].path, Keys(log[i].schema)[1]), FALSE)
       /\ KeyFailsAlone(i, Keys(log[i].schema)[2])
       /\ ~KeyRun(i, Keys(log[i].schema)[2])

------------------------------------------------------------------------
\* C3: in one invocation of the engine on a descriptor, never do two of the
\* five checks both report a failure: evaluation stops at the first check
\* that fails, so one failure is logged per invocation.
C3_OneFailurePerInvocation ==
  op = "validate" =>
    \A i \in DescriptorCalls :
      /\ Cardinality({fn \in Checks : Returned(fn, log[i].path, FALSE)}) <= 1
      /\ Cardinality({e \in 1..Len(_errors) :
                        _errors[e].instancePath = log[i].path}) <= 1

\* An invocation in which the type check and the enum check both failed.
C3_TwoChecksFailed ==
  /\ op = "validate"
  /\ \E i \in DescriptorCalls :
       /\ Returned("_matchesType", log[i].path, FALSE)
       /\ Returned("_matchesEnum", log[i].path, FALSE)

------------------------------------------------------------------------
\* The allowed type(s) the schema declares, as a type message names them: the
\* declared tag, or the declared tags joined by " | ".
DeclaredTypes(schema) ==
  IF schema.k = "array" THEN Join(schema.a, <<" | ">>) ELSE ToStr(schema)

\* C4: whenever the type check fails it logs exactly one error with keyword
\* type at the current path, whose message names the allowed type(s) the
\* schema declares and the document's classified type.
C4_TypeMessageNamesDeclared ==
  op = "validate" =>
    \A i \in 1..Len(log) :
      (/\ log[i].ev = "call" /\ log[i].fn = "_matchesType"
       /\ Returned("_matchesType", log[i].path, FALSE))
        => /\ Cardinality(ErrorsAt("type", log[i].path)) = 1
           /\ \A e \in ErrorsAt("type", log[i].path) :
                _errors[e].message =
                  TypeMessage(DeclaredTypes(log[i].schema), GetType(log[i].doc))

\* A failed type check of a single declared type other than "string".
C4_SingleTypeFailed ==
  /\ op = "validate"
  /\ _schema = Word("number")
  /\ root = Word("x")
  /\ Returned("_matchesType", <<"$">>, FALSE)

------------------------------------------------------------------------
\* C5: after any sequence of compile and validate calls that ends with
\* validate(d), the error collection, and so isValid, is the one a new
\* instance built from the most recently compiled schema gives for
\* validate(d): no error of an earlier call persists, and a repeated
\* validate(d) gives the same collection.
C5_ResetAndIdempotence ==
  op = "validate" =>
    /\ _errors = StaticValidate(source, root)
    /\ IsValidGetter(_errors) = IsValidGetter(StaticValidate(source, root))

\* A validate that found the errors of an earlier call in the collection and
\* left none of them.
C5_EarlierErrorsGone ==
  /\ op = "validate"
  /\ before # <<>>
  /\ _errors = <<>>

------------------------------------------------------------------------
\* The calls of _matchesItems whose items node is defined and whose document
\* is an array: the loop over the elements runs.
ItemLoops ==
  {i \in 1..Len(log) :
     /\ log[i].ev = "call" /\ log[i].fn = "_matchesItems"
     /\ GetType(log[i].schema) \in {"string", "array", "object"}
     /\ GetType(log[i].doc) = "array"}

\* The function the items loop applies to an element
ItemCheck(i) ==
  IF GetType(log[i].schema) = "object" THEN "_isValid" ELSE "_matchesType"

\* The place in log of the check of element index within the items check
\* that log[i] starts, 0 when the element was not checked.
ItemCall(i, index) ==
  LET at == {j \in CallsOf(ItemCheck(i), IndexPath(log[i].path, index)) :
               j > i /\ log[j].doc = log[i].doc.a[index + 1]}
  IN  IF at = {} THEN 0 ELSE CHOOSE j \in at : TRUE

\* C6: when items is defined and the document is an array, the elements are
\* checked in ascending index order at path + "[index]", an element is
\* checked exactly when the check of every element before it returned true,
\* and no error is logged at or below a later index than the first failing
\* one.
C6_ItemsStopAtFirstFailure ==
  op = "validate" =>
    \A i \in ItemLoops :
      \A index \in 0..(Len(log[i].doc.a) - 1) :
        LET earlierPass ==
              \A m \in 0..(index - 1) :
                Returned(ItemCheck(i), IndexPath(log[i].path, m), TRUE)
        IN  /\ (ItemCall(i, index) # 0) <=> earlierPass
            /\ (index > 0 /\ ItemCall(i, index) # 0) =>
                 ItemCall(i, index - 1) # 0 /\ ItemCall(i, index - 1) < ItemCall(i, index)
            /\ ~earlierPass =>
                 /\ ~WasCalled("_isValid", IndexPath(log[i].path, index))
                 /\ ~WasCalled("_matchesType", IndexPath(log[i].path, index))
                 /\ \A e \in 1..Len(_errors) :
                      ~IsPrefix(IndexPath(log[i].path, index), _errors[e].instancePath)

\* {type:"array", items:{type:"number"}} against an array whose third element
\* is the first non-number and which has a fourth: invalid, an error at $[2],
\* none at $[3].
C6_HaltedAtThirdElement ==
  /\ op = "validate"
  /\ _schema = Obj(<<Entry(<<"type">>, Word("array")), Entry(<<"items">>, NumberSchema)>>)
  /\ root = Arr(<<Num(1), Num(2), Word("x"), Num(4)>>)
  /\ ~IsValidGetter(_errors)
  /\ ErrorsAt("type", <<"$", "[", "2", "]">>) # {}
  /\ ~WasCalled("_isValid", <<"$", "[", "3", "]">>)
  /\ WasCalled("_isValid", <<"$", "[", "1", "]">>)

------------------------------------------------------------------------
\* The fields of a descriptor that the engine or the schema type knows
RecognizedFields ==
  {<<"type">>, <<"properties">>, <<"items">>, <<"enum">>, <<"pattern">>,
   <<"matches">>, <<"optional">>}

\* A schema node that is neither a type specifier nor a descriptor, or a
\* descriptor with none of the recognized fields
FailOpenNode(schema) ==
  \/ GetType(schema) \notin {"string", "array", "object"}
  \/ /\ GetType(schema) = "object"
     /\ \A n \in 1..Len(Keys(schema)) : Keys(schema)[n] \notin RecognizedFields

\* C7: validating any document against a descriptor with none of the
\* recognized fields, or against a schema node that is neither string, array
\* nor object, logs no error and leaves the instance valid.
C7_FailOpen ==
  (op = "validate" /\ FailOpenNode(_schema)) =>
    /\ _errors = <<>>
    /\ IsValidGetter(_errors)
    /\ Returned("_isValid", <<"$">>, TRUE)

\* A descriptor with an unrecognized field only, validated against a document
\* that is neither an array nor an object nor matched by any pattern.
C7_UnrecognizedDescriptor ==
  /\ op = "validate"
  /\ _schema = Obj(<<Entry(<<"foo">>, Num(1))>>)
  /\ root = Num(5)
  /\ WasCalled("_matchesProperties", <<"$">>)

------------------------------------------------------------------------
RECURSIVE HasOptional(_)
\* Whether a descriptor of the schema (the node, its items, the values of its
\* properties map, and so on down) has a truthy optional flag
HasOptional(schema) ==
  /\ GetType(schema) = "object"
  /\ \/ Truthy(Get(schema, <<"optional">>))
     \/ HasOptional(Get(schema, <<"items">>))
     \/ LET props == Get(schema, <<"properties">>)
        IN  /\ GetType(props) = "object"
            /\ \E n \in 1..Len(props.o) : HasOptional(props.o[n].val)

\* C9: for a schema in which no descriptor has a truthy optional flag, after
\* validate the collection holds at most one error, and exactly one iff the
\* engine returned false at the root.
C9_AtMostOneError ==
  (op = "validate" /\ ~HasOptional(_schema)) =>
    /\ Len(_errors) <= 1
    /\ (Len(_errors) = 1) <=> Returned("_isValid", <<"$">>, FALSE)
    /\ (Len(_errors) = 0) <=> Returned("_isValid", <<"$">>, TRUE)

\* A document with two elements that each fail the items type, of which only
\* the first is reported.
C9_SecondFailureUnreported ==
  /\ op = "validate"
  /\ ~HasOptional(_schema)
  /\ Get(_schema, <<"items">>) = Word("number")
  /\ Get(_schema, <<"type">>) = Undefined
  /\ root = Arr(<<Word("x"), Word("x")>>)
  /\ Len(_errors) = 1
  /\ _errors[1].instancePath = <<"$", "[", "0", "]">>

------------------------------------------------------------------------
\* A schema whose declared type is the single string "integer": bare, or the
\* type of a descriptor without optional
DeclaresInteger(schema) ==
  \/ schema = Word("integer")
  \/ /\ GetType(schema) = "object"
     /\ Get(schema, <<"type">>) = Word("integer")
     /\ ~Truthy(Get(schema, <<"optional">>))

\* C10: the classifier never returns "integer", so a schema whose declared
\* type is the single string "integer" makes every document invalid, whole
\* numbers included.
C10_IntegerNeverValid ==
  /\ GetType(root) # "integer"
  /\ (op = "validate" /\ DeclaresInteger(_schema)) =>
       /\ ~IsValidGetter(_errors)
       /\ ErrorsAt("type", <<"$">>) # {}

\* The whole number 5 validated against the bare type "integer".
C10_FiveIsNoInteger ==
  /\ op = "validate"
  /\ _schema = Word("integer")
  /\ root = Num(5)
  /\ GetType(root) = "number"
  /\ ~IsValidGetter(_errors)

------------------------------------------------------------------------
\* What a call's validate yields when run alone on its instance
Alone(c) == RunValidate(heap[calls[c].inst]._schema, calls[c].root, <<>>).st.errs

\* Whether another call has been made on the instance of call c
Shares(c) ==
  \E d \in CallIds \ {c} : calls[d].pc # "idle" /\ calls[d].inst = calls[c].inst

\* C8: two validations run through independent instances of the same schema
\* never interfere: each returns the errors it yields when run alone, however
\* their steps interleave.  (On one shared instance the calls race on the
\* single error collection; C8_SharedInstanceRace is such a state.)
C8_IndependentInstancesIsolated ==
  \A c \in CallIds :
    (calls # NoCalls /\ calls[c].pc = "done" /\ ~Shares(c)) =>
      /\ calls[c].seen = Alone(c)
      /\ IsValidGetter(calls[c].seen) = IsValidGetter(Alone(c))

\* Two overlapping calls on one instance, one of which returned with errors
\* and an isValid that differ from what it yields alone.
C8_SharedInstanceRace ==
  /\ calls # NoCalls
  /\ \E c \in CallIds :
       /\ calls[c].pc = "done"
       /\ Shares(c)
       /\ calls[c].seen # Alone(c)
       /\ IsValidGetter(calls[c].seen) # IsValidGetter(Alone(c))

=============================================================================
